---- MODULE Spec2Model ----
(***************************************************************************)
(* Model of the restaurant review analyzer (CO22338_Forkast).              *)
(*                                                                         *)
(* Text is modelled as TLA+ strings, processed character by character.     *)
(* Polarities are modelled exactly, in hundredths: the integer 15 stands   *)
(* for 0.15, 100 for 1.0.  The mean of a list of polarities is kept as the *)
(* fraction sum / count and compared with the thresholds exactly.          *)
(***************************************************************************)
EXTENDS Integers, Sequences, FiniteSets, TLC

VARIABLES op, text, blob, sentences, aspect_sentences, polarities, label, results, summary

\* the objects of the run, the AspectDetector, and the calls made on it
VARIABLES heap, self, returned

\* the transformers library, the argument and the object of SentimentAnalyzer(),
\* the exception a call ended with, and the result of analyze
VARIABLES transformers, method, analyzer, raised, sentiment_result

\* the result of clean_text
VARIABLES cleaned

\* the page of the application: its checkboxes, and what a press of the
\* Analyze button has assigned and displayed
VARIABLES show, defined, displayed

\* the result of the cuisine classifier
VARIABLES classified

\* the result of get_all_scores of the cuisine classifier
VARIABLES all_scores

\* the EntityRecognizer: whether the spaCy model was loaded, the entities of
\* the spaCy document, and the result of extract_entities
VARIABLES spacy_available, doc_ents, entities

vars == <<op, text, blob, sentences, aspect_sentences, polarities, label, results, summary,
          heap, self, returned,
          transformers, method, analyzer, raised, sentiment_result,
          cleaned, show, defined, displayed, classified, all_scores,
          spacy_available, doc_ents, entities>>

\* the results of the calls on the AspectDetector
aspect_results == <<blob, sentences, aspect_sentences, polarities, label, results, summary>>

detector_vars == <<heap, self, returned>>

sentiment_vars == <<transformers, method, analyzer, raised, sentiment_result>>

app_vars == <<show, defined, displayed>>

entity_vars == <<spacy_available, doc_ents, entities>>

\* what the calls on the functions of one review leave alone
others == <<detector_vars, sentiment_vars, cleaned, app_vars, classified, all_scores, entity_vars>>

(***************************************************************************)
(* Bounds of the model.                                                    *)
(***************************************************************************)
MaxLen == 4
MaxWords == 3
MaxSents == 2
MaxCalls == 2
MaxPieces == 3
MaxEnts == 2

(***************************************************************************)
(* Characters and the string primitives of Python used by the code.        *)
(***************************************************************************)
Terminators == {".", "!", "?"}

Whitespace == {" ", "\t", "\n"}

\* the lowercase form of each uppercase letter
LowerOf ==
    [A |-> "a", B |-> "b", C |-> "c", D |-> "d", E |-> "e", F |-> "f", G |-> "g",
     H |-> "h", I |-> "i", J |-> "j", K |-> "k", L |-> "l", M |-> "m", N |-> "n",
     O |-> "o", P |-> "p", Q |-> "q", R |-> "r", S |-> "s", T |-> "t", U |-> "u",
     V |-> "v", W |-> "w", X |-> "x", Y |-> "y", Z |-> "z"]

CharAt(s, i) == SubSeq(s, i, i)

\* str.lower() of one character
lower_char(c) == IF c \in DOMAIN LowerOf THEN LowerOf[c] ELSE c

RECURSIVE lower(_)
\* str.lower()
lower(s) == IF s = "" THEN "" ELSE lower_char(Head(s)) \o lower(Tail(s))

RECURSIVE lstrip(_)
lstrip(s) == IF s # "" /\ Head(s) \in Whitespace THEN lstrip(Tail(s)) ELSE s

RECURSIVE rstrip(_)
rstrip(s) ==
    IF s # "" /\ CharAt(s, Len(s)) \in Whitespace
    THEN rstrip(SubSeq(s, 1, Len(s) - 1))
    ELSE s

\* str.strip()
strip(s) == rstrip(lstrip(s))

\* "k in s" on Python strings
str_in(k, s) == \E i \in 1..(Len(s) - Len(k) + 1) : SubSeq(s, i, i + Len(k) - 1) = k

\* any(word in s for word in words)
any_in(words, s) == \E j \in 1..Len(words) : str_in(words[j], s)

RECURSIVE join(_, _)
\* sep.join(parts)
join(sep, parts) ==
    IF parts = <<>> THEN ""
    ELSE IF Len(parts) = 1 THEN parts[1]
         ELSE parts[1] \o sep \o join(sep, Tail(parts))

RECURSIVE skip_terminators(_)
skip_terminators(s) ==
    IF s # "" /\ Head(s) \in Terminators THEN skip_terminators(Tail(s)) ELSE s

RECURSIVE re_split_from(_, _)
\* re.split(r'[.!?]+', ...) scanning the rest s with the current piece cur
re_split_from(s, cur) ==
    IF s = "" THEN <<cur>>
    ELSE IF Head(s) \in Terminators
         THEN <<cur>> \o re_split_from(skip_terminators(s), "")
         ELSE re_split_from(Tail(s), cur \o Head(s))

re_split(s) == re_split_from(s, "")

Range(f) == {f[x] : x \in DOMAIN f}

(***************************************************************************)
(* AspectDetector: the keyword table and the indicator lists.              *)
(***************************************************************************)
aspect_keywords ==
    [food |-> <<"food", "dish", "meal", "taste", "flavor", "flavour", "delicious", "tasty",
                "menu", "cuisine", "recipe", "ingredient", "fresh", "quality",
                "burger", "pizza", "pasta", "salad", "dessert", "appetizer",
                "entree", "chicken", "beef", "fish", "vegetable", "spicy", "sweet",
                "bland", "flavorless", "stale", "cold", "overcooked", "undercooked",
                "juicy", "tender", "crispy", "soggy", "burnt", "raw">>,
     service |-> <<"service", "staff", "waiter", "waitress", "server", "manager",
                   "friendly", "rude", "attentive", "slow", "fast", "professional",
                   "helpful", "employee", "personnel", "team", "wait", "serve",
                   "ignored", "forgot", "efficient", "courteous", "polite", "impolite">>,
     ambiance |-> <<"ambiance", "atmosphere", "decor", "environment", "vibe", "mood",
                    "cozy", "romantic", "loud", "quiet", "clean", "dirty", "lighting",
                    "music", "seating", "interior", "decoration", "place", "setting",
                    "spacious", "cramped", "elegant", "tacky", "modern", "outdated">>,
     price |-> <<"price", "expensive", "cheap", "affordable", "value", "cost",
                 "worth", "overpriced", "reasonable", "budget", "money", "bill",
                 "pricey", "inexpensive", "deal", "discount", "waste">>]

\* the aspects: the keys of the keyword table
AspectSet == DOMAIN aspect_keywords

negative_words ==
    <<"not", "no", "never", "terrible", "horrible", "awful", "bad", "worst",
      "disappointing", "poor", "rude", "slow", "cold", "stale", "bland",
      "overpriced", "expensive", "waste", "dirty", "loud", "cramped">>

positive_words ==
    <<"great", "excellent", "amazing", "fantastic", "wonderful", "perfect",
      "delicious", "best", "love", "loved", "good", "nice", "fresh",
      "friendly", "attentive", "cozy", "beautiful", "worth">>

(***************************************************************************)
(* AspectDetector.extract_aspect_sentences                                 *)
(***************************************************************************)
\* mutant: the filter tests the piece itself, not the stripped piece
is_kept_unstripped(s) == s # ""

\* the filter of the comprehensions: if s.strip()
is_kept(s) == strip(s) # ""

RECURSIVE strip_lower_all(_)
strip_lower_all(parts) ==
    IF parts = <<>> THEN <<>>
    ELSE <<lower(strip(Head(parts)))>> \o strip_lower_all(Tail(parts))

\* mutant: the comprehension has no filter
split_sentences_unfiltered(t) == strip_lower_all(re_split(t))

\* sentences = [s.strip().lower() for s in re.split(...) if s.strip()]
split_sentences(t) == strip_lower_all(SelectSeq(re_split(t), is_kept))

\* k occurs in s as a whole word, between spaces or the ends of s
str_in_as_word(k, s) ==
    \E i \in 1..(Len(s) - Len(k) + 1) :
        /\ SubSeq(s, i, i + Len(k) - 1) = k
        /\ (i = 1 \/ CharAt(s, i - 1) = " ")
        /\ (i + Len(k) - 1 = Len(s) \/ CharAt(s, i + Len(k)) = " ")

\* mutant: a keyword matches only as a whole word
matches_aspect_as_word(aspect, sentence) ==
    \E j \in 1..Len(aspect_keywords[aspect]) :
        str_in_as_word(aspect_keywords[aspect][j], sentence)

\* any(keyword in sentence for keyword in keywords)
matches_aspect(aspect, sentence) == any_in(aspect_keywords[aspect], sentence)

\* the number of keywords of the aspect found in the sentence
matching_keywords(aspect, sentence) ==
    Cardinality({j \in 1..Len(aspect_keywords[aspect]) :
                    str_in(aspect_keywords[aspect][j], sentence)})

\* the sequence of n copies of x
copies(n, x) == [i \in 1..n |-> x]

RECURSIVE assign_sentences_per_keyword(_, _)
\* mutant: the sentence is appended once for each keyword found in it
assign_sentences_per_keyword(sents, acc) ==
    IF sents = <<>> THEN acc
    ELSE assign_sentences_per_keyword(Tail(sents),
             [a \in DOMAIN acc |->
                 acc[a] \o copies(matching_keywords(a, Head(sents)), Head(sents))])

RECURSIVE assign_sentences(_, _)
\* the loop over the sentences, appending each to the lists of the aspects it matches
assign_sentences(sents, acc) ==
    IF sents = <<>> THEN acc
    ELSE assign_sentences(Tail(sents),
             [a \in DOMAIN acc |->
                 IF matches_aspect(a, Head(sents))
                 THEN Append(acc[a], Head(sents))
                 ELSE acc[a]])

extract_aspect_sentences(t) ==
    assign_sentences(split_sentences(t), [a \in AspectSet |-> <<>>])

(***************************************************************************)
(* AspectDetector.analyze_aspect_sentiment.  The base polarity of a        *)
(* sentence is what TextBlob returns for it: b maps each sentence text to  *)
(* that value.                                                             *)
(***************************************************************************)
\* mutant: a base polarity of exactly -0.3 is overridden too
apply_negative_inclusive(has_negative, polarity) ==
    IF has_negative /\ polarity >= -30 THEN -50 ELSE polarity

\* mutant: the override does not look at the indicator
apply_negative_unconditional(has_negative, polarity) ==
    IF polarity > -30 THEN -50 ELSE polarity

apply_negative(has_negative, polarity) ==
    IF has_negative /\ polarity > -30 THEN -50 ELSE polarity

\* mutant: the indicator adds 0.5 to the base polarity
apply_positive_additive(has_positive, polarity) ==
    IF has_positive THEN polarity + 50 ELSE polarity

\* mutant: only a negative base polarity is overridden
apply_positive_below_zero(has_positive, polarity) ==
    IF has_positive /\ polarity < 0 THEN 50 ELSE polarity

apply_positive(has_positive, polarity) ==
    IF has_positive /\ polarity < 30 THEN 50 ELSE polarity

\* mutant: the positive override is applied before the negative one
sentence_polarity_negative_last(sentence, base) ==
    LET sentence_lower == lower(sentence)
        has_negative == any_in(negative_words, sentence_lower)
        has_positive == any_in(positive_words, sentence_lower)
    IN  apply_negative(has_negative, apply_positive(has_positive, base))

\* mutant: an indicator counts only as a whole word of the sentence
sentence_polarity_whole_words(sentence, base) ==
    LET sentence_lower == lower(sentence)
        has_negative == \E j \in 1..Len(negative_words) :
                            str_in_as_word(negative_words[j], sentence_lower)
        has_positive == \E j \in 1..Len(positive_words) :
                            str_in_as_word(positive_words[j], sentence_lower)
    IN  apply_positive(has_positive, apply_negative(has_negative, base))

\* the body of the loop over the sentences
sentence_polarity(sentence, base) ==
    LET sentence_lower == lower(sentence)
        has_negative == any_in(negative_words, sentence_lower)
        has_positive == any_in(positive_words, sentence_lower)
    IN  apply_positive(has_positive, apply_negative(has_negative, base))

RECURSIVE score_sentences(_, _)
score_sentences(sents, b) ==
    IF sents = <<>> THEN <<>>
    ELSE <<sentence_polarity(Head(sents), b[Head(sents)])>> \o score_sentences(Tail(sents), b)

RECURSIVE sum(_)
sum(xs) == IF xs = <<>> THEN 0 ELSE Head(xs) + sum(Tail(xs))

\* mutant: the positive threshold is not strict
avg_at_or_above(total, count) == total >= 15 * count

\* avg_polarity > 0.15, with avg_polarity = total / count
avg_above(total, count) == total > 15 * count

\* avg_polarity < -0.15
avg_below(total, count) == total < (-15) * count

threshold_label(pols) ==
    IF Len(pols) = 0 THEN "ZeroDivisionError"
    ELSE IF avg_above(sum(pols), Len(pols)) THEN "positive"
    ELSE IF avg_below(sum(pols), Len(pols)) THEN "negative"
    ELSE "neutral"

\* mutant: the empty list is not told apart and is scored like any other
analyze_without_empty_case(sents, b) == threshold_label(score_sentences(sents, b))

\* mutant: the empty list is labelled neutral
analyze_empty_as_neutral(sents, b) ==
    IF sents = <<>> THEN "neutral"
    ELSE threshold_label(score_sentences(sents, b))

analyze_aspect_sentiment(sents, b) ==
    IF sents = <<>> THEN "not mentioned"
    ELSE threshold_label(score_sentences(sents, b))

(***************************************************************************)
(* AspectDetector.extract_aspects and get_summary                          *)
(***************************************************************************)
\* mutant: the service aspect is never better than neutral
analyze_aspects_service_capped(asp, b) ==
    [a \in DOMAIN asp |->
        [sentiment |-> IF a = "service" /\ analyze_aspect_sentiment(asp[a], b) = "positive"
                       THEN "neutral"
                       ELSE analyze_aspect_sentiment(asp[a], b),
         sentences |-> asp[a],
         mentioned |-> Len(asp[a]) > 0]]

\* extract_aspects: the loop over the aspects, given the sentences of each
analyze_aspects(asp, b) ==
    [a \in DOMAIN asp |->
        [sentiment |-> analyze_aspect_sentiment(asp[a], b),
         sentences |-> asp[a],
         mentioned |-> Len(asp[a]) > 0]]

\* mutant: the comprehension keeps every aspect
summarize_unfiltered(aspects) == [a \in DOMAIN aspects |-> aspects[a].sentiment]

\* get_summary: the comprehension over the result of extract_aspects
summarize(aspects) ==
    [a \in {x \in DOMAIN aspects : aspects[x].mentioned} |-> aspects[a].sentiment]

(***************************************************************************)
(* The objects of a run.  The heap is the sequence of the mutable objects  *)
(* allocated so far, and the identity of an object is its index.  A list   *)
(* is the sequence of its items, a dict the function from its keys to its  *)
(* values; an item or value that is a list or a dict is held by identity.  *)
(***************************************************************************)
\* the keys of aspect_keywords, in insertion order
AspectOrder == <<"food", "service", "ambiance", "price">>

AspectIndex(a) == CHOOSE j \in 1..Len(AspectOrder) : AspectOrder[j] = a

\* __init__: the keyword lists
new_detector_heap == [j \in 1..Len(AspectOrder) |-> aspect_keywords[AspectOrder[j]]]

\* __init__: self.aspect_keywords, the dict of the keyword lists
new_detector == [aspect_keywords |-> [a \in AspectSet |-> AspectIndex(a)]]

\* mutant: the lists of the first call, once made, are used by every later call
reused_lists(h, slf) ==
    IF Len(h) > Len(AspectOrder)
    THEN [heap |-> h,
          lists |-> [a \in DOMAIN slf.aspect_keywords |-> Len(AspectOrder) + AspectIndex(a)]]
    ELSE [heap |-> h \o [j \in 1..Len(AspectOrder) |-> <<>>],
          lists |-> [a \in DOMAIN slf.aspect_keywords |-> Len(h) + AspectIndex(a)]]

\* {aspect: [] for aspect in self.aspect_keywords}: a new empty list per aspect
fresh_lists(h, slf) ==
    [heap |-> h \o [j \in 1..Len(AspectOrder) |-> <<>>],
     lists |-> [a \in DOMAIN slf.aspect_keywords |-> Len(h) + AspectIndex(a)]]

\* the inner loop: aspect_sentences[aspect].append(sentence) for each aspect
\* one of whose keywords is in the sentence
append_sentence(h, slf, lists, sentence) ==
    [id \in DOMAIN h |->
        IF \E a \in DOMAIN lists :
               lists[a] = id /\ any_in(h[slf.aspect_keywords[a]], sentence)
        THEN Append(h[id], sentence)
        ELSE h[id]]

RECURSIVE append_sentences(_, _, _, _)
\* the loop over the sentences
append_sentences(h, slf, lists, sents) ==
    IF sents = <<>> THEN h
    ELSE append_sentences(append_sentence(h, slf, lists, Head(sents)), slf, lists, Tail(sents))

\* the dict aspect_sentences, allocated once its lists are filled
return_lists(h, lists) == [heap |-> Append(h, lists), ret |-> Len(h) + 1]

\* extract_aspect_sentences: the heap after the call and the dict returned
extract_aspect_sentences_on(h, slf, t) ==
    CHOOSE r \in {return_lists(append_sentences(fl.heap, slf, fl.lists, split_sentences(t)),
                               fl.lists) : fl \in {fresh_lists(h, slf)}} : TRUE

\* the loop of extract_aspects: results = {} and one new dict per aspect,
\* whose 'sentences' is the list of aspect_sentences itself
build_results(r, b) ==
    [heap |-> (Append(r.heap, [a \in DOMAIN r.heap[r.ret] |-> Len(r.heap) + 1 + AspectIndex(a)]))
                  \o [j \in 1..Len(AspectOrder) |->
                         [sentiment |-> analyze_aspect_sentiment(
                                            r.heap[r.heap[r.ret][AspectOrder[j]]], b),
                          sentences |-> r.heap[r.ret][AspectOrder[j]],
                          mentioned |-> Len(r.heap[r.heap[r.ret][AspectOrder[j]]]) > 0]],
     ret |-> Len(r.heap) + 1]

\* extract_aspects: the heap after the call and the dict returned
extract_aspects_on(h, slf, t, b) ==
    CHOOSE r \in {build_results(x, b) : x \in {extract_aspect_sentences_on(h, slf, t)}} : TRUE

\* the contents of the dict id of a result of extract_aspects, lists included
aspects_value(h, id) ==
    [a \in DOMAIN h[id] |->
        [sentiment |-> h[h[id][a]].sentiment,
         sentences |-> h[h[h[id][a]].sentences],
         mentioned |-> h[h[id][a]].mentioned]]

\* the comprehension of get_summary: a new dict of strings
build_summary(r) ==
    [heap |-> Append(r.heap, summarize(aspects_value(r.heap, r.ret))),
     ret |-> Len(r.heap) + 1]

\* get_summary: the heap after the call and the dict returned
get_summary_on(h, slf, t, b) ==
    CHOOSE r \in {build_summary(x) : x \in {extract_aspects_on(h, slf, t, b)}} : TRUE

(***************************************************************************)
(* SentimentAnalyzer.  The polarity TextBlob gives to a text and the score *)
(* of the model are in units of 0.00001; a confidence, rounded to four     *)
(* decimals, is in ten-thousandths.                                        *)
(***************************************************************************)
\* what importing transformers and loading the model do on this machine: the
\* import fails, the import succeeds and pipeline() raises, or both succeed
TransformersStates == {"not installed", "model not loadable", "ready"}

\* the module-level try / except ImportError
TRANSFORMERS_AVAILABLE(tr) == tr # "not installed"

\* __init__(method): the analyzer constructed, if any, and the exception raised
SentimentAnalyzer_init(m, tr) ==
    IF m = "transformer"
    THEN IF ~TRANSFORMERS_AVAILABLE(tr)
         THEN [analyzer |-> <<[method |-> "textblob", model |-> FALSE]>>, raised |-> "none"]
         ELSE IF tr = "ready"
              THEN [analyzer |-> <<[method |-> m, model |-> TRUE]>>, raised |-> "none"]
              ELSE [analyzer |-> <<>>, raised |-> "Exception"]
    ELSE [analyzer |-> <<[method |-> m, model |-> FALSE]>>, raised |-> "none"]

abs(x) == IF x < 0 THEN -x ELSE x

\* mutant: the 'slightly' labels are displayed as they are
keep_for_display(sentiment) == sentiment

\* the "more nuanced sentiment classification", on a polarity counted in
\* units of 0.00001
nuanced_sentiment(polarity) ==
    IF polarity > 30000 THEN "positive"
    ELSE IF polarity < -30000 THEN "negative"
    ELSE IF polarity > 5000 THEN "slightly positive"
    ELSE IF polarity < -5000 THEN "slightly negative"
    ELSE "neutral"

\* "simplify for display": if 'slightly' in sentiment
simplify_for_display(sentiment) ==
    IF str_in("slightly", sentiment) THEN "neutral" ELSE sentiment

\* analyze_textblob, given the polarity of the text
analyze_textblob(polarity) ==
    [sentiment |-> simplify_for_display(nuanced_sentiment(polarity)),
     score |-> abs(polarity)]

\* analyze_transformer, given the label and the score of the model
analyze_transformer(model_label, model_score) ==
    [sentiment |-> lower(model_label), score |-> model_score]

\* round(score, 4): the multiple of 0.0001 nearest to a score counted in
\* units of 0.00001, as a number of 0.0001
round_4(score) == (score + 5) \div 10

\* analyze, on the analyzer an: the dict returned, or the exception raised
analyze(an, polarity, model_label, model_score) ==
    IF an.method = "textblob"
    THEN [result |-> [sentiment |-> analyze_textblob(polarity).sentiment,
                      confidence |-> round_4(analyze_textblob(polarity).score),
                      method |-> an.method],
          raised |-> "none"]
    ELSE IF an.model
         THEN [result |-> [sentiment |-> analyze_transformer(model_label, model_score).sentiment,
                           confidence |-> round_4(analyze_transformer(model_label, model_score).score),
                           method |-> an.method],
               raised |-> "none"]
         ELSE [result |-> [sentiment |-> "", confidence |-> 0, method |-> an.method],
               raised |-> "AttributeError"]

(***************************************************************************)
(* utils.clean_text                                                        *)
(***************************************************************************)
Digits == {"0", "1", "2", "3", "4", "5", "6", "7", "8", "9"}

Alphanumeric == DOMAIN LowerOf \cup Range(LowerOf) \cup Digits

\* p is a prefix of s
starts_with(p, s) == Len(s) >= Len(p) /\ SubSeq(s, 1, Len(p)) = p

RECURSIVE skip_non_space(_)
\* s without the run of non-whitespace characters it starts with: what \S+
\* leaves when it matches at the start of s
skip_non_space(s) ==
    IF s # "" /\ Head(s) \notin Whitespace THEN skip_non_space(Tail(s)) ELSE s

\* the length of the run of non-whitespace characters s starts with
run_length(s) == Len(s) - Len(skip_non_space(s))

\* entries of the dictionary of the contractions library (contractions_dict.json:
\* "I'm": "I am", "don't": "do not"); its keys are matched whatever their case
contractions_dict == [k \in {"i'm", "don't"} |-> IF k = "i'm" THEN "I am" ELSE "do not"]

\* the key k is at the start of s, and no letter or digit follows it
key_at(k, s) ==
    /\ Len(s) >= Len(k)
    /\ lower(SubSeq(s, 1, Len(k))) = k
    /\ (Len(s) = Len(k) \/ CharAt(s, Len(k) + 1) \notin Alphanumeric)

RECURSIVE contractions_fix_from(_, _)
\* contractions.fix on the rest s of a text, prev being the character before s
contractions_fix_from(s, prev) ==
    IF s = "" THEN ""
    ELSE IF prev \notin Alphanumeric /\ \E k \in DOMAIN contractions_dict : key_at(k, s)
         THEN LET k == CHOOSE x \in DOMAIN contractions_dict : key_at(x, s)
              IN  contractions_dict[k]
                      \o contractions_fix_from(SubSeq(s, Len(k) + 1, Len(s)), CharAt(k, Len(k)))
         ELSE Head(s) \o contractions_fix_from(Tail(s), Head(s))

\* contractions.fix(text)
contractions_fix(s) == contractions_fix_from(s, " ")

\* http\S+|www\S+|https\S+ matches at the start of s
url_match(s) ==
    \E p \in {"http", "www", "https"} :
        starts_with(p, s) /\ Len(s) > Len(p) /\ CharAt(s, Len(p) + 1) \notin Whitespace

RECURSIVE remove_urls(_)
\* re.sub(r'http\S+|www\S+|https\S+', '', text)
remove_urls(s) ==
    IF s = "" THEN ""
    ELSE IF url_match(s) THEN remove_urls(skip_non_space(s))
         ELSE Head(s) \o remove_urls(Tail(s))

\* \S+@\S+ matches at the start of s: the run of non-whitespace characters s
\* starts with has an '@' that is neither its first nor its last character
email_match(s) == \E j \in 2..(run_length(s) - 1) : CharAt(s, j) = "@"

RECURSIVE remove_emails(_)
\* re.sub(r'\S+@\S+', '', text)
remove_emails(s) ==
    IF s = "" THEN ""
    ELSE IF email_match(s) THEN remove_emails(skip_non_space(s))
         ELSE Head(s) \o remove_emails(Tail(s))

RECURSIVE str_split(_)
\* text.split(): the runs of non-whitespace characters
str_split(s) ==
    IF lstrip(s) = "" THEN <<>>
    ELSE <<SubSeq(lstrip(s), 1, run_length(lstrip(s)))>> \o str_split(skip_non_space(lstrip(s)))

clean_text(t) ==
    strip(join(" ", str_split(remove_emails(remove_urls(contractions_fix(lower(t)))))))

(***************************************************************************)
(* streamlit_app.main: the handler of the Analyze button.  A run is        *)
(* followed by the local names it has assigned, the elements it has        *)
(* displayed, and the exception that ended it, if any.                     *)
(***************************************************************************)
\* the checkboxes of the sidebar
Options == {"sentiment", "aspects", "cuisine", "entities"}

\* the run has reached the statement and executes it
running(run) == run.raised = "none"

\* name = ...
assign(run, name) ==
    IF running(run) THEN [run EXCEPT !.defined = @ \cup {name}] ELSE run

\* an element is displayed from the value of the local name
display(run, name, element) ==
    IF ~running(run) THEN run
    ELSE IF name \in run.defined
         THEN [run EXCEPT !.displayed = Append(@, element)]
         ELSE [run EXCEPT !.raised = "UnboundLocalError"]

\* if show_sentiment: ... of the Overview tab; the blocks of show_cuisine and
\* show_entities are inside it
overview_sentiment(run, sh) ==
    IF ~sh["sentiment"] THEN run
    ELSE LET sentiment == display(assign(run, "sentiment_result"),
                                  "sentiment_result", "Overall Sentiment")
             cuisine == IF sh["cuisine"]
                        THEN display(assign(sentiment, "cuisine_result"),
                                     "cuisine_result", "Cuisine Type")
                        ELSE sentiment
         IN  IF sh["entities"]
             THEN display(assign(assign(cuisine, "entities"), "total_entities"),
                          "total_entities", "Entities Extracted")
             ELSE cuisine

\* if show_aspects: ... of the Overview tab
overview_aspects(run, sh) ==
    IF sh["aspects"]
    THEN display(assign(run, "aspects"), "aspects", "Aspect-Based Analysis")
    ELSE run

\* with tabs[1]: the four blocks of the Detailed Analysis tab
detailed(run, sh) ==
    LET sentiment == IF sh["sentiment"]
                     THEN display(run, "sentiment_result", "Sentiment Analysis")
                     ELSE run
        aspects == IF sh["aspects"]
                   THEN display(assign(sentiment, "full_aspects"),
                                "full_aspects", "Aspect Details")
                   ELSE sentiment
        cuisine == IF sh["cuisine"]
                   THEN display(assign(aspects, "all_scores"),
                                "all_scores", "Cuisine Classification")
                   ELSE aspects
    IN  IF sh["entities"]
        THEN display(cuisine, "entities", "Extracted Entities")
        ELSE cuisine

\* with tabs[2]: the statistics of review_text
statistics(run) == display(run, "review_text", "Review Statistics")

\* the body of if st.button(...), for the review and the checkboxes of the page
analyze_button(review_text, sh) ==
    IF review_text = "" \/ Len(strip(review_text)) < 10
    THEN [defined |-> {"review_text"}, displayed |-> <<"error">>, raised |-> "none"]
    ELSE statistics(detailed(overview_aspects(overview_sentiment(
             assign([defined |-> {"review_text"}, displayed |-> <<>>, raised |-> "none"],
                    "cleaned_text"), sh), sh), sh))

(***************************************************************************)
(* CuisineClassifier.  A confidence of classify_by_keywords is kept as the *)
(* fraction <<numerator, denominator>>; classify rounds it to four         *)
(* decimals, kept in ten-thousandths.                                      *)
(***************************************************************************)
cuisine_keywords ==
    [Italian |->
        <<"pasta", "pizza", "spaghetti", "lasagna", "risotto", "gelato",
          "tiramisu", "parmigiana", "carbonara", "bruschetta", "gnocchi",
          "italian", "marinara", "alfredo", "mozzarella", "parmesan",
          "fettuccine", "ravioli">>,
     Chinese |->
        <<"noodle", "dumpling", "wonton", "fried rice", "chow mein",
          "kung pao", "sweet and sour", "dim sum", "chinese", "szechuan",
          "cantonese", "spring roll", "fortune cookie", "stir fry",
          "soy sauce", "peking duck", "hot pot">>,
     Indian |->
        <<"curry", "naan", "biryani", "tandoori", "masala", "samosa", "paneer",
          "tikka", "korma", "vindaloo", "dal", "indian", "chapati",
          "butter chicken", "roti", "chai", "dosa", "idli">>,
     Mexican |->
        <<"taco", "burrito", "quesadilla", "enchilada", "guacamole", "salsa",
          "nachos", "fajita", "chimichanga", "mexican", "tortilla", "jalapeño",
          "margarita", "cilantro", "tamale">>,
     Japanese |->
        <<"sushi", "sashimi", "ramen", "tempura", "teriyaki", "miso", "wasabi",
          "sake", "udon", "japanese", "hibachi", "edamame", "bento", "katsu",
          "soba", "california roll", "tonkatsu">>,
     Korean |->
        <<"korean", "bbq", "galbi", "bulgogi", "kimchi", "bibimbap",
          "korean bbq", "gochujang", "banchan", "soju", "kbbq",
          "korean fried chicken", "japchae", "tteokbokki">>,
     American |->
        <<"burger", "fries", "steak", "ribs", "sandwich", "hot dog",
          "mac and cheese", "fried chicken", "american", "coleslaw",
          "milkshake", "diner", "breakfast", "bacon", "eggs", "wings",
          "pulled pork">>,
     Thai |->
        <<"pad thai", "tom yum", "thai", "coconut", "lemongrass", "basil",
          "peanut sauce", "mango", "sticky rice", "green curry", "red curry",
          "papaya salad">>,
     Mediterranean |->
        <<"hummus", "falafel", "kebab", "gyro", "shawarma", "pita",
          "mediterranean", "greek", "olive", "feta", "tzatziki", "lamb",
          "baba ganoush", "tabbouleh">>,
     Ethiopian |->
        <<"ethiopian", "injera", "doro wat", "berbere", "kitfo", "habesha",
          "teff", "mesob">>,
     Brazilian |->
        <<"brazilian", "picanha", "fogo", "churrasco", "pao de queijo",
          "caipirinha", "feijoada", "brigadeiro">>,
     Vietnamese |->
        <<"pho", "banh mi", "vietnamese", "spring rolls", "bun", "vermicelli",
          "fish sauce", "lemongrass">>,
     French |->
        <<"french", "foie gras", "escargot", "croissant", "crepe",
          "ratatouille", "coq au vin", "bouillabaisse", "beef wellington">>]

\* the keys of cuisine_keywords, in insertion order
CuisineOrder ==
    <<"Italian", "Chinese", "Indian", "Mexican", "Japanese", "Korean",
      "American", "Thai", "Mediterranean", "Ethiopian", "Brazilian",
      "Vietnamese", "French">>

\* explicit_mentions.items(), in insertion order
explicit_mentions ==
    <<<<"korean", "Korean">>,
      <<"korean bbq", "Korean">>,
      <<"kbbq", "Korean">>,
      <<"indian", "Indian">>,
      <<"italian", "Italian">>,
      <<"chinese", "Chinese">>,
      <<"japanese", "Japanese">>,
      <<"mexican", "Mexican">>,
      <<"thai", "Thai">>,
      <<"ethiopian", "Ethiopian">>,
      <<"brazilian", "Brazilian">>,
      <<"vietnamese", "Vietnamese">>,
      <<"french", "French">>,
      <<"mediterranean", "Mediterranean">>,
      <<"american", "American">>>>

\* mutant: every keyword weighs 1
keyword_weight_one(keyword) == 1

\* len(keyword.split())
keyword_weight(keyword) == Len(str_split(keyword))

RECURSIVE mention_by_position(_, _)
\* mutant: the name found first in the text wins
mention_by_position(mentions, text_lower) ==
    IF text_lower = "" THEN ""
    ELSE IF \E j \in 1..Len(mentions) : starts_with(mentions[j][1], text_lower)
         THEN mentions[CHOOSE j \in 1..Len(mentions) :
                           starts_with(mentions[j][1], text_lower)][2]
         ELSE mention_by_position(mentions, Tail(text_lower))

RECURSIVE first_mention(_, _)
\* the loop over explicit_mentions.items(): the cuisine returned, "" if the
\* loop ends without a return
first_mention(mentions, text_lower) ==
    IF mentions = <<>> THEN ""
    ELSE IF str_in(Head(mentions)[1], text_lower) THEN Head(mentions)[2]
         ELSE first_mention(Tail(mentions), text_lower)

RECURSIVE weighted_sum(_, _)
\* the loop over the keywords of one cuisine
weighted_sum(keywords, text_lower) ==
    IF keywords = <<>> THEN 0
    ELSE (IF str_in(Head(keywords), text_lower) THEN keyword_weight(Head(keywords)) ELSE 0)
             + weighted_sum(Tail(keywords), text_lower)

\* the dict scores
cuisine_scores(text_lower) ==
    [c \in DOMAIN cuisine_keywords |-> weighted_sum(cuisine_keywords[c], text_lower)]

\* max(scores.values())
max_score(scores) == CHOOSE m \in Range(scores) : \A c \in DOMAIN scores : scores[c] <= m

\* max(scores, key=scores.get): the first key with the highest score
best_cuisine(scores) ==
    CuisineOrder[CHOOSE j \in 1..Len(CuisineOrder) :
                     /\ scores[CuisineOrder[j]] = max_score(scores)
                     /\ \A i \in 1..(j - 1) : scores[CuisineOrder[i]] < max_score(scores)]

RECURSIVE sum_scores(_, _)
\* sum(scores.values())
sum_scores(scores, j) ==
    IF j = 0 THEN 0 ELSE scores[CuisineOrder[j]] + sum_scores(scores, j - 1)

\* the part of classify_by_keywords after the scores are counted
by_scores(scores) ==
    IF max_score(scores) = 0
    THEN [cuisine |-> "Unknown", confidence |-> <<0, 1>>]
    ELSE [cuisine |-> best_cuisine(scores),
          confidence |-> <<scores[best_cuisine(scores)], sum_scores(scores, Len(CuisineOrder))>>]

\* classify_by_keywords, on the lowercased text
classify_lowered(text_lower) ==
    IF first_mention(explicit_mentions, text_lower) # ""
    THEN [cuisine |-> first_mention(explicit_mentions, text_lower), confidence |-> <<1, 1>>]
    ELSE CHOOSE r \in {by_scores(scores) : scores \in {cuisine_scores(text_lower)}} : TRUE

classify_by_keywords(t) ==
    CHOOSE r \in {classify_lowered(text_lower) : text_lower \in {lower(t)}} : TRUE

\* round(n / d, 4), in ten-thousandths
round4(n, d) == (2 * 10000 * n + d) \div (2 * d)

\* the dict classify makes of the pair r of classify_by_keywords
classify_result(r) ==
    [cuisine |-> r.cuisine,
     confidence |-> round4(r.confidence[1], r.confidence[2]),
     method |-> "keyword_matching",
     by_keywords |-> r]

\* classify
classify(t) == CHOOSE d \in {classify_result(r) : r \in {classify_by_keywords(t)}} : TRUE

RECURSIVE keyword_count(_, _)
\* sum(1 for keyword in keywords if keyword in text_lower)
keyword_count(keywords, text_lower) ==
    IF keywords = <<>> THEN 0
    ELSE (IF str_in(Head(keywords), text_lower) THEN 1 ELSE 0)
             + keyword_count(Tail(keywords), text_lower)

\* mutant: a cuisine with one keyword found is left out
counted_above_one(count) == count > 1

\* if count > 0
counted(count) == count > 0

\* the items of the dict scores of get_all_scores, in the order they are set
score_items(text_lower) ==
    LET count == [c \in DOMAIN cuisine_keywords |->
                     keyword_count(cuisine_keywords[c], text_lower)]
        kept == SelectSeq(CuisineOrder, LAMBDA c : counted(count[c]))
    IN  [i \in 1..Len(kept) |-> <<kept[i], count[kept[i]]>>]

RECURSIVE insert_by_score(_, _)
\* the sorted items with the item x put after those of a score not below its own
insert_by_score(items, x) ==
    IF items = <<>> THEN <<x>>
    ELSE IF Head(items)[2] >= x[2] THEN <<Head(items)>> \o insert_by_score(Tail(items), x)
         ELSE <<x>> \o items

RECURSIVE sorted_by_score(_, _)
\* sorted(scores.items(), key=lambda x: x[1], reverse=True): a stable sort, the
\* items of done being sorted already
sorted_by_score(items, done) ==
    IF items = <<>> THEN done
    ELSE sorted_by_score(Tail(items), insert_by_score(done, Head(items)))

\* get_all_scores: the items of the dict returned, in its order
get_all_scores(t) ==
    CHOOSE r \in {sorted_by_score(score_items(text_lower), <<>>) : text_lower \in {lower(t)}} : TRUE

(***************************************************************************)
(* EntityRecognizer.  The entities of the spaCy document are a sequence of *)
(* records [text, label_].  A Python set is iterated in an order that the  *)
(* hashes of its strings decide: list(set) is any of the orders of         *)
(* iteration_orders.                                                       *)
(***************************************************************************)
food_indicators ==
    <<"naan", "chicken", "curry", "biryani", "tikka", "paneer", "pizza",
      "pasta", "burger", "sushi", "taco", "rice", "bread", "salad", "soup",
      "fish", "beef", "pork", "lamb">>

false_names ==
    <<"rich", "fresh", "hot", "cold", "sweet", "spicy", "mild", "tender">>

indian_dishes ==
    <<"butter chicken", "chicken tikka", "tandoori chicken", "chicken curry",
      "paneer tikka", "palak paneer", "dal", "dal makhani", "biryani",
      "samosa", "naan", "garlic naan", "butter naan", "roti", "chapati",
      "paratha", "tikka masala", "korma", "vindaloo", "doro wat", "injera",
      "masala dosa", "idli", "vada", "pakora">>

common_dishes ==
    <<"pizza", "margherita pizza", "pasta", "spaghetti", "lasagna",
      "fettuccine", "carbonara", "alfredo", "ravioli", "gnocchi", "tiramisu",
      "risotto", "bruschetta", "parmigiana", "burger", "cheeseburger",
      "impossible burger", "hot dog", "fries", "french fries", "wings",
      "buffalo wings", "ribs", "pulled pork", "mac and cheese",
      "eggs benedict", "avocado toast", "milkshake", "sushi", "sashimi",
      "ramen", "tempura", "teriyaki", "tonkatsu", "udon", "soba",
      "california roll", "miso soup", "edamame", "taco", "fish taco",
      "burrito", "quesadilla", "enchilada", "guacamole", "nachos", "fajita",
      "tamale", "churro", "dumpling", "fried rice", "chow mein", "dim sum",
      "wonton", "kung pao chicken", "sweet and sour", "peking duck",
      "spring roll", "galbi", "bulgogi", "kimchi", "bibimbap", "japchae",
      "tteokbokki", "pad thai", "tom yum", "green curry", "red curry",
      "papaya salad", "pho", "banh mi", "steak", "filet mignon", "salad",
      "caesar salad", "quinoa salad", "soup", "sandwich", "lobster", "crab",
      "shrimp", "cheesecake", "foie gras", "beef wellington", "pani puri",
      "vada pav", "falafel", "hummus", "shawarma", "gyro", "kebab">>

stopwords ==
    {"the", "a", "an", "and", "or", "but", "in", "on", "at", "very", "good",
      "great", "best", "nice", "amazing"}

\* all_dishes = indian_dishes + common_dishes
all_dishes == indian_dishes \o common_dishes

\* the uppercase letter of a lowercase one
upper_char(c) ==
    IF \E u \in DOMAIN LowerOf : LowerOf[u] = c
    THEN CHOOSE u \in DOMAIN LowerOf : LowerOf[u] = c
    ELSE c

is_cased(c) == c \in DOMAIN LowerOf \/ upper_char(c) # c

RECURSIVE title_from(_, _)
\* str.title() on the rest s of a string, the character before s being cased
\* or not
title_from(s, after_cased) ==
    IF s = "" THEN ""
    ELSE (IF ~is_cased(Head(s)) THEN Head(s)
          ELSE IF after_cased THEN lower_char(Head(s))
          ELSE upper_char(Head(s)))
         \o title_from(Tail(s), is_cased(Head(s)))

\* str.title()
title(s) == title_from(s, FALSE)

\* str.endswith
ends_with(p, s) == Len(s) >= Len(p) /\ SubSeq(s, Len(s) - Len(p) + 1, Len(s)) = p

\* the condition of the loop over all_dishes
dish_matches(dish, text_lower) ==
    \/ str_in(" " \o dish \o " ", " " \o text_lower \o " ")
    \/ starts_with(dish, text_lower)
    \/ ends_with(dish, text_lower)

RECURSIVE first_of_each(_, _)
\* the items of a list, each one where it comes first; seen are the earlier ones
first_of_each(list, seen) ==
    IF list = <<>> THEN <<>>
    ELSE IF Head(list) \in seen THEN first_of_each(Tail(list), seen)
         ELSE <<Head(list)>> \o first_of_each(Tail(list), seen \cup {Head(list)})

\* the items of the set dishes after the loop over all_dishes, in the order
\* they were added
dishes_added(t) ==
    LET text_lower == lower(t)
        found == SelectSeq(all_dishes, LAMBDA dish : dish_matches(dish, text_lower))
    IN  first_of_each([i \in 1..Len(found) |-> title(found[i])], {})

\* list[:n]
take(list, n) == SubSeq(list, 1, IF Len(list) < n THEN Len(list) ELSE n)

rotate(list, k) == SubSeq(list, k + 1, Len(list)) \o SubSeq(list, 1, k)

reverse(list) == [i \in 1..Len(list) |-> list[Len(list) + 1 - i]]

\* orders in which the set of the items of list may be iterated: the
\* rotations of list and their reversals, which are all the orders of a set
\* of at most three items
iteration_orders(list) ==
    IF list = <<>> THEN {<<>>}
    ELSE UNION {{rotate(list, k), reverse(rotate(list, k))} : k \in 0..(Len(list) - 1)}

\* extract_dishes_by_rules: list(dishes)[:10], for each iteration order
extract_dishes_by_rules(t) ==
    {take(order, 10) : order \in iteration_orders(dishes_added(t))}

\* the list an entity of the document is appended to, "" for none
entity_list(ent) ==
    LET ent_lower == lower(ent.text)
        is_food == any_in(food_indicators, ent_lower)
        is_false_name == \E i \in 1..Len(false_names) : false_names[i] = ent_lower
    IN  IF ent.label_ = "PERSON"
        THEN IF is_food THEN "dishes"
             ELSE IF ~is_false_name /\ Len(ent.text) > 2 THEN "people"
             ELSE ""
        ELSE IF ent.label_ = "ORG" THEN "restaurants"
        ELSE IF ent.label_ = "GPE" THEN "locations"
        ELSE IF ent.label_ \in {"PRODUCT", "FOOD"} THEN "dishes"
        ELSE ""

EntityTypes == {"dishes", "restaurants", "locations", "people"}

\* the lists of entities after the loop over doc.ents
entities_appended(ents) ==
    [k \in EntityTypes |->
        LET of_k == SelectSeq(ents, LAMBDA ent : entity_list(ent) = k)
        IN  [i \in 1..Len(of_k) |-> of_k[i].text]]

\* mutant: every dish is kept
all_dishes_kept(dishes) == dishes

RECURSIVE unique_from(_, _)
unique_from(dishes, seen) ==
    IF dishes = <<>> THEN <<>>
    ELSE IF lower(Head(dishes)) \in seen THEN unique_from(Tail(dishes), seen)
         ELSE <<Head(dishes)>> \o unique_from(Tail(dishes), seen \cup {lower(Head(dishes))})

\* "remove duplicates (case-insensitive)"
unique_dishes(dishes) == unique_from(dishes, {})

\* extract_with_spacy, on the entities ents of the document and the list
\* rule_dishes that extract_dishes_by_rules returns: the dicts it may return,
\* one for each iteration order of the four sets
extract_with_spacy(ents, rule_dishes) ==
    LET appended == entities_appended(ents)
        orders == [k \in EntityTypes |-> iteration_orders(first_of_each(appended[k], {}))]
    IN  {[dishes |-> unique_dishes(d \o rule_dishes), restaurants |-> r,
          locations |-> l, people |-> p] :
           d \in orders["dishes"], r \in orders["restaurants"],
           l \in orders["locations"], p \in orders["people"]}

\* extract_with_rules, on the list that extract_dishes_by_rules returns
extract_with_rules(rule_dishes) ==
    [dishes |-> rule_dishes, restaurants |-> <<>>, locations |-> <<>>, people |-> <<>>]

\* the test of the list comprehension of _clean_entities
is_kept_entity(e) == lower(e) \notin stopwords /\ Len(e) > 2

\* _clean_entities
clean_entities(found) ==
    [entity_type \in DOMAIN found |-> take(SelectSeq(found[entity_type], is_kept_entity), 10)]

\* extract_entities: the dicts it may return
extract_entities(available, ents, rule_dishes) ==
    {clean_entities(found) :
        found \in (IF available THEN extract_with_spacy(ents, rule_dishes)
                   ELSE {extract_with_rules(rule_dishes)})}

(***************************************************************************)
(* utils.extract_sentences                                                 *)
(***************************************************************************)
RECURSIVE strip_all(_)
strip_all(parts) ==
    IF parts = <<>> THEN <<>> ELSE <<strip(Head(parts))>> \o strip_all(Tail(parts))

extract_sentences(t) == strip_all(SelectSeq(re_split(t), is_kept))

(***************************************************************************)
(* Inputs.                                                                 *)
(***************************************************************************)
Alphabet == {"a", "B", " ", ".", "?"}

Vocabulary == {"strawberry", "Great food", "cold waiter", "not worth", "ok", ".\n"}

SentencePool == {"menu", "GREAT food", "cold waiter", "not worth it"}

\* the values TextBlob may return, for a direct call of analyze_aspect_sentiment
BasePolarities == {-100, -30, -29, -15, 0, 15, 29, 30, 100}

\* the values TextBlob may return, for the sentences of a review
ReviewPolarities == {-30, 0, 30}

RECURSIVE Concats(_, _)
\* the strings made of at most n pieces of the set pieces
Concats(pieces, n) ==
    IF n = 0 THEN {""}
    ELSE LET shorter == Concats(pieces, n - 1)
         IN  shorter \cup {s \o p : s \in shorter, p \in pieces}

RECURSIVE Lists(_, _)
Lists(pool, n) ==
    IF n = 0 THEN {<<>>}
    ELSE LET shorter == Lists(pool, n - 1)
         IN  shorter \cup {Append(l, x) : l \in shorter, x \in pool}

\* the reviews of test_accuracy.py
TerribleReview == "The food was terrible and the service was horrible. Never coming back!"

AmazingReview == "Amazing food! However, the service was extremely slow and rude."

PastaReview == "The pasta was delicious but overpriced. Service was okay."

TestReviews == {TerribleReview, AmazingReview, PastaReview}

Reviews == Concats(Alphabet, MaxLen) \cup Concats(Vocabulary, MaxWords)

\* the values TextBlob may return on the sentences of the review t
PolaritiesFor(t) == IF t \in TestReviews THEN BasePolarities ELSE ReviewPolarities

SentenceLists == Lists(SentencePool, MaxSents)

\* lists with a sentence whose only indicator is 'expensive'
ExpensiveLists == {<<"expensive menu">>, <<"expensive menu", "menu">>}

\* the values TextBlob may return on the sentences of the list sl of a direct
\* call: every value around the thresholds for a list of at most two
\* sentences, the values of a review for a longer one
ListPolarities(sl) == IF Len(sl) <= 2 THEN BasePolarities ELSE ReviewPolarities

\* lists with a sentence whose only indicator is inside another word: 'no' in
\* 'noodles' and in 'know', 'love' in 'gloves'
EmbeddedLists == {<<"noodles">>, <<"I know", "menu">>, <<"gloves">>}

\* the sentences TextBlob is called on, given the sentences of each aspect
ScoredSentences(asp) == UNION {Range(asp[a]) : a \in DOMAIN asp}

None == <<>>

\* the pieces the texts given to clean_text are made of
CleanPieces == {"I'm", "don't", "http", "www", "s", "@", " ", "\t", ":", "A"}

CleanInputs == Concats(CleanPieces, MaxPieces)

\* the pieces the texts given to the cuisine classifier are made of
CuisinePieces ==
    {"Thai ", "Italian ", "Korean BBQ ", "pizza ", "noodle ", "fried rice ", "spring rolls ",
     "ok "}

CuisineTexts == Concats(CuisinePieces, MaxPieces)

\* the reviews of the text area of the page
PageReviews == {"", "Good", "   Good.  \n   ", "Good food", "Good food.", PastaReview}

\* the arguments of SentimentAnalyzer()
Methods == {"textblob", "transformer"}

\* polarities between the multiples of 0.01, in units of 0.00001, none of them
\* halfway between two multiples of 0.0001 (where round() goes by the binary
\* value of the float)
FinePolarities == {4, 4999, 5001, 29999, 30001, 33333, 35714, 99996}

\* the polarities TextBlob may give to a text, in units of 0.00001: the
\* multiples of 0.05 of [-1, 1] and the fine ones, of both signs
TextPolarities ==
    {k * 5000 : k \in (-20)..20} \cup FinePolarities \cup {-v : v \in FinePolarities}

\* the outputs of the transformer model
ModelLabels == {"POSITIVE", "NEGATIVE"}

\* in units of 0.00001
ModelScores == {50000, 75004, 100000}

\* the reviews given to one detector, one after the other
CallReviews == {"Great food. cold waiter", "menu. cold waiter", "ok"}

CallSentences == UNION {Range(split_sentences(t)) : t \in CallReviews}

\* the values TextBlob may return on the sentences of these reviews
CallPolarities == {-30, 30}

\* the pieces the texts given to extract_entities are made of
EntityPieces == {"Naan ", "The ", "Al ", "PIZZA ", "John "}

\* a text with eleven dishes of all_dishes, and one that is not in it
MenuText == "dal pho roti idli vada udon soba taco ribs naan gyro Momo"

EntityTexts == Concats(EntityPieces, MaxPieces) \cup {MenuText}

\* entities the spaCy model may find, with their labels
EntityPool ==
    {[text |-> "Naan", label_ |-> "PERSON"], [text |-> "PIZZA", label_ |-> "PRODUCT"],
     [text |-> "The", label_ |-> "ORG"], [text |-> "Al", label_ |-> "GPE"],
     [text |-> "Al", label_ |-> "PERSON"], [text |-> "John", label_ |-> "PERSON"],
     [text |-> "John", label_ |-> "DATE"], [text |-> "Momo", label_ |-> "PRODUCT"]}

\* the values of doc.ents for the text t: entities that occur in t
DocEnts(t) == Lists({ent \in EntityPool : str_in(ent.text, t)}, MaxEnts)

(***************************************************************************)
(* The state machine: one action per call.                                 *)
(***************************************************************************)
\* AspectDetector(): the detector and its keyword lists, and no call yet
NewDetector ==
    /\ heap = new_detector_heap
    /\ self = new_detector
    /\ returned = <<>>

\* no SentimentAnalyzer yet
NoAnalyzer ==
    /\ method = ""
    /\ analyzer = <<>>
    /\ raised = "none"
    /\ sentiment_result = None

\* no sentiment analysis: the transformers library is left out
NoSentiment ==
    /\ transformers = "not installed"
    /\ NoAnalyzer

\* no call of clean_text
NoCleaning == cleaned = None

\* the page is not used
NoPage ==
    /\ show = None
    /\ defined = {}
    /\ displayed = <<>>

\* no call of the cuisine classifier
NoClassification ==
    /\ classified = None
    /\ all_scores = None

\* no EntityRecognizer
NoEntities ==
    /\ spacy_available = FALSE
    /\ doc_ents = <<>>
    /\ entities = None

\* no call on the AspectDetector has a result
NoAspectResult ==
    /\ sentences = None
    /\ aspect_sentences = None
    /\ polarities = None
    /\ label = None
    /\ results = None
    /\ summary = None

Init ==
    /\ op = "idle"
    /\ text = ""
    /\ blob = None
    /\ NoAspectResult
    /\ NewDetector
    /\ NoSentiment
    /\ NoCleaning
    /\ NoPage
    /\ NoClassification
    /\ NoEntities

\* utils.extract_sentences(t)
ExtractSentences ==
    /\ op = "idle"
    /\ \E t \in Reviews :
        /\ op' = "extract_sentences"
        /\ text' = t
        /\ sentences' = extract_sentences(t)
        /\ blob' = None
        /\ aspect_sentences' = None
        /\ polarities' = None
        /\ label' = None
        /\ results' = None
        /\ summary' = None
        /\ UNCHANGED others

\* detector.extract_aspect_sentences(t)
ExtractAspectSentences ==
    /\ op = "idle"
    /\ \E t \in Reviews :
        /\ op' = "extract_aspect_sentences"
        /\ text' = t
        /\ sentences' = split_sentences(t)
        /\ aspect_sentences' = extract_aspect_sentences(t)
        /\ blob' = None
        /\ polarities' = None
        /\ label' = None
        /\ results' = None
        /\ summary' = None
        /\ UNCHANGED others

\* detector.analyze_aspect_sentiment(sl)
AnalyzeAspectSentiment ==
    /\ op = "idle"
    /\ \E sl \in SentenceLists \cup ExpensiveLists \cup EmbeddedLists :
        \E b \in [Range(sl) -> ListPolarities(sl)] :
            /\ op' = "analyze_aspect_sentiment"
            /\ text' = ""
            /\ sentences' = sl
            /\ blob' = b
            /\ polarities' = score_sentences(sl, b)
            /\ label' = analyze_aspect_sentiment(sl, b)
            /\ aspect_sentences' = None
            /\ results' = None
            /\ summary' = None
            /\ UNCHANGED others

\* detector.extract_aspects(t)
ExtractAspects ==
    /\ op = "idle"
    /\ \E t \in Reviews \cup TestReviews :
        \E asp \in {extract_aspect_sentences(t)} :
            \E b \in [ScoredSentences(asp) -> PolaritiesFor(t)] :
                /\ op' = "extract_aspects"
                /\ text' = t
                /\ blob' = b
                /\ sentences' = split_sentences(t)
                /\ aspect_sentences' = asp
                /\ polarities' = None
                /\ results' = analyze_aspects(asp, b)
                /\ label' = None
                /\ summary' = None
                /\ UNCHANGED others

\* detector.get_summary(t)
GetSummary ==
    /\ op = "idle"
    /\ \E t \in Reviews \cup TestReviews :
        \E asp \in {extract_aspect_sentences(t)} :
            \E b \in [ScoredSentences(asp) -> PolaritiesFor(t)] :
                \E aspects \in {analyze_aspects(asp, b)} :
                    /\ op' = "get_summary"
                    /\ text' = t
                    /\ blob' = b
                    /\ sentences' = split_sentences(t)
                    /\ aspect_sentences' = asp
                    /\ polarities' = None
                    /\ results' = aspects
                    /\ summary' = summarize(aspects)
                    /\ label' = None
                    /\ UNCHANGED others

\* the caller is done with the result and goes on to its next call
NextReview ==
    /\ op # "idle"
    /\ op' = "idle"
    /\ text' = ""
    /\ blob' = None
    /\ sentences' = None
    /\ aspect_sentences' = None
    /\ polarities' = None
    /\ label' = None
    /\ results' = None
    /\ summary' = None
    /\ UNCHANGED others

Next ==
    \/ ExtractSentences
    \/ ExtractAspectSentences
    \/ AnalyzeAspectSentiment
    \/ ExtractAspects
    \/ GetSummary
    \/ NextReview

Spec == Init /\ [][Next]_vars

(***************************************************************************)
(* A sequence of calls on one AspectDetector.  TextBlob is a function of   *)
(* the sentence: it is chosen once and is the same for every call.         *)
(***************************************************************************)
InitCalls ==
    /\ op = "idle"
    /\ text = ""
    /\ blob \in [CallSentences -> CallPolarities]
    /\ NoAspectResult
    /\ NewDetector
    /\ NoSentiment
    /\ NoCleaning
    /\ NoPage
    /\ NoClassification
    /\ NoEntities

\* what the caller holds of a call that returned
Returned(o, t, h, r) ==
    [op |-> o, text |-> t, ret |-> r.ret, before |-> Len(h), after |-> Len(r.heap)]

\* detector.extract_aspects(t), after the calls made so far
DetectorExtractAspects ==
    /\ Len(returned) < MaxCalls
    /\ \E t \in CallReviews :
        \E r \in {extract_aspects_on(heap, self, t, blob)} :
            /\ op' = "extract_aspects"
            /\ text' = t
            /\ heap' = r.heap
            /\ returned' = Append(returned, Returned("extract_aspects", t, heap, r))
            /\ sentences' = split_sentences(t)
            /\ aspect_sentences' = None
            /\ results' = aspects_value(r.heap, r.ret)
            /\ summary' = None
            /\ UNCHANGED <<self, blob, polarities, label, sentiment_vars, cleaned, app_vars, classified,
                     all_scores, entity_vars>>

\* detector.get_summary(t), after the calls made so far
DetectorGetSummary ==
    /\ Len(returned) < MaxCalls
    /\ \E t \in CallReviews :
        \E r \in {get_summary_on(heap, self, t, blob)} :
            /\ op' = "get_summary"
            /\ text' = t
            /\ heap' = r.heap
            /\ returned' = Append(returned, Returned("get_summary", t, heap, r))
            /\ sentences' = split_sentences(t)
            /\ aspect_sentences' = None
            /\ results' = aspects_value(r.heap, r.ret - Len(AspectOrder) - 1)
            /\ summary' = r.heap[r.ret]
            /\ UNCHANGED <<self, blob, polarities, label, sentiment_vars, cleaned, app_vars, classified,
                     all_scores, entity_vars>>

NextCalls ==
    \/ DetectorExtractAspects
    \/ DetectorGetSummary

SpecCalls == InitCalls /\ [][NextCalls]_vars

(***************************************************************************)
(* The SentimentAnalyzer: its construction, then calls of analyze.         *)
(***************************************************************************)
InitSentiment ==
    /\ op = "idle"
    /\ text = ""
    /\ blob = None
    /\ NoAspectResult
    /\ NewDetector
    /\ transformers \in TransformersStates
    /\ NoAnalyzer
    /\ NoCleaning
    /\ NoPage
    /\ NoClassification
    /\ NoEntities

\* SentimentAnalyzer(method=m)
Construct ==
    /\ op = "idle"
    /\ \E m \in Methods :
        /\ op' = "SentimentAnalyzer"
        /\ method' = m
        /\ analyzer' = SentimentAnalyzer_init(m, transformers).analyzer
        /\ raised' = SentimentAnalyzer_init(m, transformers).raised
        /\ UNCHANGED <<text, aspect_results, detector_vars, transformers, sentiment_result,
                     cleaned, app_vars, classified,
                     all_scores, entity_vars>>

\* analyzer.analyze(text), on the analyzer constructed
Analyze ==
    /\ op # "idle"
    /\ Len(analyzer) = 1
    /\ \E polarity \in TextPolarities, model_label \in ModelLabels, model_score \in ModelScores :
        /\ op' = "analyze"
        /\ blob' = [t \in {text} |-> polarity]
        /\ sentiment_result' = analyze(analyzer[1], polarity, model_label, model_score).result
        /\ raised' = analyze(analyzer[1], polarity, model_label, model_score).raised
        /\ UNCHANGED <<text, sentences, aspect_sentences, polarities, label, results, summary,
                     detector_vars, transformers, method, analyzer,
                     cleaned, app_vars, classified,
                     all_scores, entity_vars>>

NextSentiment ==
    \/ Construct
    \/ Analyze

SpecSentiment == InitSentiment /\ [][NextSentiment]_vars

(***************************************************************************)
(* clean_text, on a text drawn from CleanInputs.                           *)
(***************************************************************************)
InitClean ==
    /\ op = "idle"
    /\ text \in CleanInputs
    /\ blob = None
    /\ NoAspectResult
    /\ NewDetector
    /\ NoSentiment
    /\ NoCleaning
    /\ NoPage
    /\ NoClassification
    /\ NoEntities

\* clean_text(text)
CleanText ==
    /\ op = "idle"
    /\ op' = "clean_text"
    /\ cleaned' = clean_text(text)
    /\ UNCHANGED <<text, aspect_results, detector_vars, sentiment_vars, app_vars, classified,
                     all_scores, entity_vars>>

NextClean == CleanText

SpecClean == InitClean /\ [][NextClean]_vars

(***************************************************************************)
(* The page of the application: a review and four checkboxes, then a press *)
(* of the Analyze button.                                                  *)
(***************************************************************************)
InitApp ==
    /\ op = "idle"
    /\ text \in PageReviews
    /\ blob = None
    /\ NoAspectResult
    /\ NewDetector
    /\ NoSentiment
    /\ NoCleaning
    /\ show \in [Options -> BOOLEAN]
    /\ defined = {}
    /\ displayed = <<>>
    /\ NoClassification
    /\ NoEntities

\* the script runs with the button pressed
AnalyzeButton ==
    /\ op = "idle"
    /\ op' = "analyze_button"
    /\ \E run \in {analyze_button(text, show)} :
        /\ defined' = run.defined
        /\ displayed' = run.displayed
        /\ raised' = run.raised
    /\ UNCHANGED <<text, aspect_results, detector_vars, transformers, method, analyzer,
                   sentiment_result, cleaned, show, classified,
                     all_scores, entity_vars>>

NextApp == AnalyzeButton

SpecApp == InitApp /\ [][NextApp]_vars

(***************************************************************************)
(* The cuisine classifier, on a text drawn from CuisineTexts.              *)
(***************************************************************************)
InitCuisine ==
    /\ op = "idle"
    /\ text \in CuisineTexts
    /\ blob = None
    /\ NoAspectResult
    /\ NewDetector
    /\ NoSentiment
    /\ NoCleaning
    /\ NoPage
    /\ NoClassification
    /\ NoEntities

\* classifier.classify(text)
Classify ==
    /\ op = "idle"
    /\ op' = "classify"
    /\ classified' = classify(text)
    /\ UNCHANGED <<text, aspect_results, detector_vars, sentiment_vars, cleaned, app_vars,
                 all_scores, entity_vars>>

\* classifier.get_all_scores(text), after classify as on the page
GetAllScores ==
    /\ op = "classify"
    /\ op' = "get_all_scores"
    /\ all_scores' = get_all_scores(text)
    /\ UNCHANGED <<text, aspect_results, detector_vars, sentiment_vars, cleaned, app_vars,
                 classified, entity_vars>>

NextCuisine ==
    \/ Classify
    \/ GetAllScores

SpecCuisine == InitCuisine /\ [][NextCuisine]_vars

(***************************************************************************)
(* EntityRecognizer.extract_entities, on a text drawn from EntityTexts,    *)
(* with the spaCy model loaded or not.                                     *)
(***************************************************************************)
InitEntities ==
    /\ op = "idle"
    /\ text \in EntityTexts
    /\ blob = None
    /\ NoAspectResult
    /\ NewDetector
    /\ NoSentiment
    /\ NoCleaning
    /\ NoPage
    /\ NoClassification
    /\ spacy_available \in BOOLEAN
    /\ doc_ents = <<>>
    /\ entities = None

\* recognizer.extract_entities(text)
ExtractEntities ==
    /\ op = "idle"
    /\ \E rule_dishes \in extract_dishes_by_rules(text) :
        \E ents \in (IF spacy_available THEN DocEnts(text) ELSE {<<>>}) :
            \E cleaned_entities \in extract_entities(spacy_available, ents, rule_dishes) :
                /\ op' = "extract_entities"
                /\ doc_ents' = ents
                /\ entities' = cleaned_entities
    /\ UNCHANGED <<text, aspect_results, detector_vars, sentiment_vars, cleaned, app_vars,
                 classified, all_scores, spacy_available>>

NextEntities == ExtractEntities

SpecEntities == InitEntities /\ [][NextEntities]_vars

(***************************************************************************)
(* Properties.                                                             *)
(***************************************************************************)
Analysed == op \in {"extract_aspects", "get_summary"}

Scored == op = "analyze_aspect_sentiment"

\* s has an indicator of the list words
HasIndicator(words, s) == any_in(words, lower(s))

NegativeOnly(s) == HasIndicator(negative_words, s) /\ ~HasIndicator(positive_words, s)

PositiveOnly(s) == HasIndicator(positive_words, s) /\ ~HasIndicator(negative_words, s)

BothIndicators(s) == HasIndicator(negative_words, s) /\ HasIndicator(positive_words, s)

NoIndicator(s) == ~HasIndicator(negative_words, s) /\ ~HasIndicator(positive_words, s)

\* the label the thresholds give to the mean total / count
MeanLabel(total, count) ==
    CASE 100 * total > 15 * 100 * count -> "positive"
      [] 100 * total < (-15) * 100 * count -> "negative"
      [] OTHER -> "neutral"

\* C1: in every result of extract_aspects, an aspect is mentioned exactly when
\* its sentence list is non-empty, and its sentiment is 'not mentioned' exactly
\* when the list is empty.
C1_MentionedIffSentences ==
    Analysed =>
        \A a \in DOMAIN results :
            /\ results[a].mentioned <=> (results[a].sentences # <<>>)
            /\ (results[a].sentiment = "not mentioned") <=> (results[a].sentences = <<>>)
            /\ results[a].sentiment \in {"positive", "negative", "neutral", "not mentioned"}

C1_Witness ==
    /\ op = "extract_aspects"
    /\ results["food"].mentioned
    /\ results["food"].sentiment = "negative"
    /\ ~results["price"].mentioned
    /\ results["price"].sentiment = "not mentioned"

\* C2: for a non-empty list of sentences the label is 'positive' iff the mean of
\* the final polarities is above 0.15, 'negative' iff it is below -0.15, and
\* 'neutral' otherwise, a mean of exactly 0.15 or -0.15 included.
C2_LabelFromMean ==
    /\ (Scored /\ sentences # <<>>) =>
           label = MeanLabel(sum(polarities), Len(polarities))
    /\ Analysed =>
           \A a \in DOMAIN results :
               results[a].sentences # <<>> =>
                   results[a].sentiment =
                       MeanLabel(sum(score_sentences(results[a].sentences, blob)),
                                 Len(results[a].sentences))

C2_Witness ==
    /\ Scored
    /\ Len(polarities) = 2
    /\ sum(polarities) = 15 * 2
    /\ polarities[1] # polarities[2]
    /\ label = "neutral"

\* C3: a sentence with only a negative indicator gets -0.5 when its base
\* polarity is above -0.3 and keeps it otherwise; one with only a positive
\* indicator gets +0.5 when its base polarity is below 0.3 and keeps it
\* otherwise; one with no indicator keeps its base polarity.
C3_OverrideRule ==
    Scored =>
        \A i \in 1..Len(sentences) :
            LET s == sentences[i]
                base == blob[s]
                final == polarities[i]
            IN  /\ NegativeOnly(s) => final = (IF base > -30 THEN -50 ELSE base)
                /\ PositiveOnly(s) => final = (IF base < 30 THEN 50 ELSE base)
                /\ NoIndicator(s) => final = base

C3_Witness ==
    /\ Scored
    /\ Len(sentences) = 2
    /\ NegativeOnly(sentences[1])
    /\ blob[sentences[1]] = -30
    /\ polarities[1] = -30
    /\ PositiveOnly(sentences[2])
    /\ blob[sentences[2]] = 29
    /\ polarities[2] = 50

\* C4: a sentence with both a negative and a positive indicator and a base
\* polarity of 0.0 ends at +0.5: the positive override is applied last.
C4_PositiveOverrideLast ==
    Scored =>
        \A i \in 1..Len(sentences) :
            (BothIndicators(sentences[i]) /\ blob[sentences[i]] = 0) => polarities[i] = 50

C4_Witness ==
    /\ Scored
    /\ Len(sentences) = 1
    /\ BothIndicators(sentences[1])
    /\ blob[sentences[1]] = 0
    /\ polarities[1] = 50
    /\ label = "positive"

\* the text is empty or holds only whitespace and terminators
OnlyBlank(t) == \A i \in 1..Len(t) : CharAt(t, i) \in Whitespace \cup Terminators

\* C5: for the empty string and for every text of whitespace and terminators
\* only, extract_aspects reports each of the four aspects as not mentioned, with
\* the sentiment 'not mentioned' and no sentence, and get_summary is empty.
C5_BlankTextNotMentioned ==
    (Analysed /\ OnlyBlank(text)) =>
        /\ DOMAIN results = {"food", "service", "ambiance", "price"}
        /\ \A a \in DOMAIN results :
               /\ results[a].mentioned = FALSE
               /\ results[a].sentiment = "not mentioned"
               /\ results[a].sentences = <<>>
        /\ op = "get_summary" => DOMAIN summary = {}

C5_Witness ==
    /\ op = "get_summary"
    /\ OnlyBlank(text)
    /\ \E i \in 1..Len(text) : CharAt(text, i) \in Whitespace
    /\ \E i \in 1..Len(text) : CharAt(text, i) \in Terminators
    /\ DOMAIN summary = {}

Split == op = "extract_aspect_sentences"

IsTerminator(t, i) == CharAt(t, i) \in Terminators

IsWhitespace(t, i) == CharAt(t, i) \in Whitespace

\* the positions where a stretch of t free of terminators starts
StretchStarts(t) ==
    {i \in 1..Len(t) : ~IsTerminator(t, i) /\ (i = 1 \/ IsTerminator(t, i - 1))}

\* the last position of the stretch that starts at i
StretchEnd(t, i) ==
    CHOOSE j \in i..Len(t) :
        /\ \A k \in i..j : ~IsTerminator(t, k)
        /\ (j = Len(t) \/ IsTerminator(t, j + 1))

\* the segment of t that starts at i: t up to the next run of terminators
Segment(t, i) == SubSeq(t, i, StretchEnd(t, i))

AllWhitespace(s) == \A k \in 1..Len(s) : IsWhitespace(s, k)

\* s without the whitespace at its two ends
Trimmed(s) ==
    IF AllWhitespace(s) THEN ""
    ELSE LET first == CHOOSE i \in 1..Len(s) :
                          ~IsWhitespace(s, i) /\ \A k \in 1..(i - 1) : IsWhitespace(s, k)
             last == CHOOSE j \in 1..Len(s) :
                          ~IsWhitespace(s, j) /\ \A k \in (j + 1)..Len(s) : IsWhitespace(s, k)
         IN  SubSeq(s, first, last)

\* the starts of the segments of t that are non-empty after trimming
KeptStarts(t) == {i \in StretchStarts(t) : ~AllWhitespace(Segment(t, i))}

\* the place of the segment that starts at i among the kept segments
RankOf(t, i) == Cardinality({j \in KeptStarts(t) : j <= i})

\* out is s with each uppercase letter replaced by its lowercase form
IsLowercaseOf(out, s) ==
    /\ Len(out) = Len(s)
    /\ \A k \in 1..Len(s) : CharAt(out, k) = lower_char(CharAt(s, k))

\* C6: the split of extract_aspect_sentences yields, in document order, exactly
\* the segments between runs of terminators that are non-empty after trimming;
\* each fragment is trimmed, lowercased, free of terminators and not empty.
C6_SplitFragments ==
    Split =>
        /\ Len(sentences) = Cardinality(KeptStarts(text))
        /\ \A i \in KeptStarts(text) :
               IsLowercaseOf(sentences[RankOf(text, i)], Trimmed(Segment(text, i)))
        /\ \A n \in 1..Len(sentences) :
               LET f == sentences[n]
               IN  /\ f # ""
                   /\ ~IsWhitespace(f, 1)
                   /\ ~IsWhitespace(f, Len(f))
                   /\ \A k \in 1..Len(f) :
                          /\ ~IsTerminator(f, k)
                          /\ CharAt(f, k) \notin DOMAIN LowerOf

C6_Witness ==
    /\ Split
    /\ text = " B.?"
    /\ sentences = <<"b">>

\* splitting again the fragments joined with the terminator term gives them back
ResplitSame(term) ==
    /\ op = "extract_aspect_sentences" => split_sentences(join(term, sentences)) = sentences
    /\ op = "extract_sentences" => extract_sentences(join(term, sentences)) = sentences

\* C7 as stated: the splitter outputs as many sentences as the text has
\* non-empty segments between runs of terminators, and splitting is idempotent.
C7_CountOfNonEmptySegments ==
    op \in {"extract_aspect_sentences", "extract_sentences"} =>
        /\ Len(sentences) = Cardinality(StretchStarts(text))
        /\ \A term \in Terminators : ResplitSame(term)

\* C7 amended: the splitter outputs as many sentences as the text has segments
\* that are non-empty after trimming whitespace, and joining the output with
\* any terminator and splitting again yields the same fragments.
C7_CountOfTrimmedSegments ==
    op \in {"extract_aspect_sentences", "extract_sentences"} =>
        /\ Len(sentences) = Cardinality(KeptStarts(text))
        /\ \A term \in Terminators : ResplitSame(term)

C7_Witness ==
    /\ op = "extract_sentences"
    /\ Cardinality(StretchStarts(text)) = 2
    /\ Cardinality(KeptStarts(text)) = 1
    /\ Len(sentences) = 1
    /\ extract_sentences(join("!", sentences)) = sentences

\* k occurs in s as a contiguous substring
Occurs(k, s) ==
    \E p \in 0..(Len(s) - Len(k)) : \A c \in 1..Len(k) : CharAt(s, p + c) = CharAt(k, c)

\* some keyword of the aspect occurs in s
KeywordOccurs(aspect, s) ==
    \E j \in 1..Len(aspect_keywords[aspect]) : Occurs(aspect_keywords[aspect][j], s)

\* C8: a sentence is in the list of an aspect iff one of the keywords of the
\* aspect occurs in it as a contiguous substring, inside a longer word or not.
C8_SubstringMembership ==
    Split =>
        \A a \in AspectSet :
            \A i \in 1..Len(sentences) :
                (\E j \in 1..Len(aspect_sentences[a]) : aspect_sentences[a][j] = sentences[i])
                    <=> KeywordOccurs(a, sentences[i])

C8_Witness ==
    /\ Split
    /\ sentences = <<"strawberry">>
    /\ aspect_sentences["food"] = <<"strawberry">>
    /\ Occurs("raw", "strawberry")
    /\ ~str_in_as_word("raw", "strawberry")

\* C9: the list of an aspect is the sequence of the split sentences that match
\* the aspect, in document order, each occurrence once.
C9_ListIsMatchingSubsequence ==
    Split =>
        \A a \in AspectSet :
            LET Matches(s) == KeywordOccurs(a, s)
            IN  aspect_sentences[a] = SelectSeq(sentences, Matches)

C9_Witness ==
    /\ Split
    /\ sentences = <<"ok", "cold waiter">>
    /\ aspect_sentences["food"] = <<"cold waiter">>
    /\ aspect_sentences["service"] = <<"cold waiter">>
    /\ aspect_sentences["price"] = <<>>
    /\ matching_keywords("service", "cold waiter") = 2

\* C10: extract_aspects has an entry for exactly the four aspects, and the
\* summary is the result restricted to the mentioned aspects, with the same
\* sentiments; 'not mentioned' is never a value of the summary.
C10_SummaryIsRestriction ==
    /\ Analysed => DOMAIN results = {"food", "service", "ambiance", "price"}
    /\ op = "get_summary" =>
           /\ DOMAIN summary = {a \in DOMAIN results : results[a].mentioned}
           /\ \A a \in DOMAIN summary :
                  /\ summary[a] = results[a].sentiment
                  /\ summary[a] # "not mentioned"

C10_Witness ==
    /\ op = "get_summary"
    /\ DOMAIN summary = {"food", "service"}
    /\ summary["food"] = "negative"
    /\ ~results["price"].mentioned

\* C11: for the first review of test_accuracy.py the food and the service
\* aspects are both 'negative', and for the second one the food aspect is
\* 'positive' and the service aspect is 'negative', whatever TextBlob returns
\* for each sentence.
C11_TestReviewLabels ==
    Analysed =>
        /\ text = TerribleReview =>
               /\ results["food"].sentiment = "negative"
               /\ results["service"].sentiment = "negative"
        /\ text = AmazingReview =>
               /\ results["food"].sentiment = "positive"
               /\ results["service"].sentiment = "negative"
        /\ (op = "get_summary" /\ text = TerribleReview) =>
               summary = [a \in {"food", "service"} |-> "negative"]
        /\ (op = "get_summary" /\ text = AmazingReview) =>
               summary = [food |-> "positive", service |-> "negative"]

C11_Witness ==
    /\ op = "get_summary"
    /\ text = AmazingReview
    /\ blob["amazing food"] = -100
    /\ blob["however, the service was extremely slow and rude"] = 100
    /\ summary["food"] = "positive"
    /\ summary["service"] = "negative"

\* C12 as stated: for the third review of test_accuracy.py the food aspect is
\* 'positive', the price aspect is 'negative' and the service aspect is
\* mentioned.
C12_PastaPriceNegative ==
    (Analysed /\ text = PastaReview) =>
        /\ results["food"].sentiment = "positive"
        /\ results["price"].sentiment = "negative"
        /\ results["service"].mentioned

\* C12: for the third review of test_accuracy.py the food aspect and the price
\* aspect are both 'positive', their one sentence holding the positive
\* indicator 'delicious' next to the negative indicator 'overpriced', and the
\* service aspect is mentioned.
C12_PastaPricePositive ==
    (Analysed /\ text = PastaReview) =>
        /\ results["food"].sentiment = "positive"
        /\ results["price"].sentiment = "positive"
        /\ results["price"].sentences = <<"the pasta was delicious but overpriced">>
        /\ results["service"].mentioned
        /\ results["service"].sentences = <<"service was okay">>

C12_Witness ==
    /\ op = "extract_aspects"
    /\ text = PastaReview
    /\ blob["the pasta was delicious but overpriced"] = -100
    /\ results["price"].sentiment = "positive"
    /\ results["service"].mentioned
    /\ results["service"].sentiment = "neutral"

\* the 20 negative indicator words the documentation lists
ListedNegativeWords ==
    <<"terrible", "horrible", "rude", "slow", "cold", "stale", "bland",
      "overpriced", "waste", "dirty", "loud", "cramped", "not", "no", "never",
      "worst", "disappointing", "poor", "awful", "bad">>

\* the polarity of the i-th scored sentence was forced to -0.5
ForcedNegative(i) == polarities[i] = -50 /\ blob[sentences[i]] # -50

\* C13 as stated: a sentence containing none of the 20 listed negative
\* indicator words never has its polarity forced to -0.5.
C13_OnlyListedWordsForce ==
    Scored =>
        \A i \in 1..Len(sentences) :
            ~HasIndicator(ListedNegativeWords, sentences[i]) => ~ForcedNegative(i)

\* C13: a sentence containing none of the 21 negative indicator words, the 20
\* listed ones and 'expensive', never has its polarity forced to -0.5.
C13_OnlyListedOrExpensiveForce ==
    Scored =>
        \A i \in 1..Len(sentences) :
            ~HasIndicator(ListedNegativeWords \o <<"expensive">>, sentences[i])
                => ~ForcedNegative(i)

C13_Witness ==
    /\ Scored
    /\ sentences = <<"expensive menu", "menu">>
    /\ blob["expensive menu"] = 0
    /\ blob["menu"] = 0
    /\ polarities = <<-50, 0>>

InRange(x, count) == (-100) * count <= x /\ x <= 100 * count

\* C14: the final polarity of every sentence is in [-1, 1], and so is the mean
\* polarity of every non-empty sentence list, the base polarities being in
\* [-1, 1].
C14_PolarityInRange ==
    /\ Scored =>
           /\ \A s \in DOMAIN blob : InRange(blob[s], 1)
           /\ \A i \in 1..Len(polarities) : InRange(polarities[i], 1)
           /\ sentences # <<>> => InRange(sum(polarities), Len(polarities))
    /\ Analysed =>
           \E final \in {[s \in DOMAIN blob |-> sentence_polarity(s, blob[s])]} :
               /\ \A s \in DOMAIN blob : InRange(blob[s], 1) /\ InRange(final[s], 1)
               /\ \A a \in DOMAIN results :
                      results[a].mentioned =>
                          InRange(sum([i \in 1..Len(results[a].sentences) |->
                                          final[results[a].sentences[i]]]),
                                  Len(results[a].sentences))

C14_Witness ==
    /\ Scored
    /\ sentences = <<"menu", "GREAT food">>
    /\ blob["menu"] = -100
    /\ blob["GREAT food"] = 100
    /\ polarities = <<-100, 100>>

\* the value of the result of the call c, read in the heap h
ResultValue(h, c) ==
    IF c.op = "get_summary" THEN h[c.ret] ELSE aspects_value(h, c.ret)

\* the result of the same call on a detector just constructed
FreshResult(c, b) ==
    IF c.op = "get_summary"
    THEN summarize(analyze_aspects(extract_aspect_sentences(c.text), b))
    ELSE analyze_aspects(extract_aspect_sentences(c.text), b)

\* the objects of the result of the call c: the dict returned and, for
\* extract_aspects, the dict of each aspect and its list of sentences
ResultObjects(h, c) ==
    IF c.op = "get_summary" THEN {c.ret}
    ELSE {c.ret} \cup {h[c.ret][a] : a \in DOMAIN h[c.ret]}
                 \cup {h[h[c.ret][a]].sentences : a \in DOMAIN h[c.ret]}

\* C15: after any sequence of extract_aspects and get_summary calls on one
\* detector the keyword table is the one of the constructor, the result of
\* every call is the one a new detector gives for the same review and is not
\* changed by a later call, and the objects of a result were allocated during
\* its call and belong to no other result.
C15_CallsIndependent ==
    /\ self = new_detector
    /\ \A a \in AspectSet : heap[self.aspect_keywords[a]] = aspect_keywords[a]
    /\ \A k \in 1..Len(returned) :
           /\ ResultValue(heap, returned[k]) = FreshResult(returned[k], blob)
           /\ ResultObjects(heap, returned[k]) \subseteq
                  (returned[k].before + 1)..returned[k].after
           /\ \A j \in 1..Len(returned) :
                  j # k => ResultObjects(heap, returned[j])
                               \cap ResultObjects(heap, returned[k]) = {}

C15_Witness ==
    /\ Len(returned) = 2
    /\ returned[1].op = "extract_aspects"
    /\ returned[1].text = "Great food. cold waiter"
    /\ returned[2].op = "extract_aspects"
    /\ returned[2].text = "menu. cold waiter"
    /\ ResultValue(heap, returned[1])["food"].sentences = <<"great food", "cold waiter">>
    /\ ResultValue(heap, returned[2])["food"].sentences = <<"menu", "cold waiter">>
    /\ heap[returned[1].ret]["food"] # heap[returned[2].ret]["food"]

\* C16: whenever SentimentAnalyzer is constructed with method 'transformer'
\* and the library is not importable or the model cannot be loaded, the
\* construction does not fail, the method of the analyzer is 'textblob', and
\* every result of analyze reports the method 'textblob'.
C16_FallsBackToTextblob ==
    (op # "idle" /\ method = "transformer" /\ transformers # "ready") =>
        /\ raised = "none"
        /\ Len(analyzer) = 1
        /\ analyzer[1].method = "textblob"
        /\ op = "analyze" => sentiment_result.method = "textblob"

\* no 'http' or 'www' of s is followed by a non-whitespace character
NoUrlToken(s) ==
    \A p \in {"http", "www"} :
        \A i \in 1..(Len(s) - Len(p)) :
            SubSeq(s, i, i + Len(p) - 1) = p => CharAt(s, i + Len(p)) \in Whitespace

\* no '@' of s has a non-whitespace character on both sides
NoEmailToken(s) ==
    \A i \in 2..(Len(s) - 1) :
        CharAt(s, i) = "@" =>
            CharAt(s, i - 1) \in Whitespace \/ CharAt(s, i + 1) \in Whitespace

\* the whitespace of s is single spaces, none of them at an end
SingleSpaced(s) ==
    /\ \A i \in 1..Len(s) : CharAt(s, i) \in Whitespace => CharAt(s, i) = " "
    /\ \A i \in 1..(Len(s) - 1) : ~(CharAt(s, i) = " " /\ CharAt(s, i + 1) = " ")
    /\ s # "" => (CharAt(s, 1) # " " /\ CharAt(s, Len(s)) # " ")

\* C17: for every text clean_text returns a string that is entirely lowercase,
\* has no URL-like token and no email-like token, and has its whitespace
\* collapsed to single spaces with none at either end; the empty text gives
\* the empty string.
C17_CleanTextContract ==
    op = "clean_text" =>
        /\ lower(cleaned) = cleaned
        /\ NoUrlToken(cleaned)
        /\ NoEmailToken(cleaned)
        /\ SingleSpaced(cleaned)
        /\ text = "" => cleaned = ""

\* the local names that hold the result of an analysis
AnalysisNames ==
    {"cleaned_text", "sentiment_result", "cuisine_result", "entities", "total_entities",
     "aspects", "full_aspects", "all_scores"}

\* C18: a press of Analyze with a review of fewer than 10 characters after
\* trimming shows an error and runs no analysis; with a review of at least 10
\* trimmed characters, whatever the four checkboxes, the run goes to its end
\* (the statistics, displayed last) without an exception, no displayed result
\* being read before it was computed.
C18_OnlyShortInputsFail ==
    op = "analyze_button" =>
        /\ Len(strip(text)) < 10 =>
               /\ displayed = <<"error">>
               /\ defined \cap AnalysisNames = {}
               /\ raised = "none"
        /\ Len(strip(text)) >= 10 =>
               /\ raised = "none"
               /\ displayed # <<>>
               /\ displayed[Len(displayed)] = "Review Statistics"

\* the number of words of the keyword k
WordCount(k) == 1 + Cardinality({i \in 1..Len(k) : CharAt(k, i) = " "})

RECURSIVE WordsFound(_, _)
\* the words of the keywords found in s, counted keyword by keyword
WordsFound(keywords, s) ==
    IF keywords = <<>> THEN 0
    ELSE (IF Occurs(Head(keywords), s) THEN WordCount(Head(keywords)) ELSE 0)
             + WordsFound(Tail(keywords), s)

\* the weighted keyword score of every cuisine on s
Scores(s) == [c \in DOMAIN cuisine_keywords |-> WordsFound(cuisine_keywords[c], s)]

\* c has the highest of the scores sc
Highest(sc, c) == c \in DOMAIN sc /\ \A x \in DOMAIN sc : sc[x] <= sc[c]

\* the explicit cuisine names, in the order of their table
ExplicitNames ==
    <<"korean", "korean bbq", "kbbq", "indian", "italian", "chinese", "japanese",
      "mexican", "thai", "ethiopian", "brazilian", "vietnamese", "french",
      "mediterranean", "american">>

\* the cuisine of each explicit name
CuisineOfName(name) ==
    IF name \in {"korean", "korean bbq", "kbbq"} THEN "Korean"
    ELSE CHOOSE c \in DOMAIN cuisine_keywords : lower(c) = name

\* the positions, in the table, of the explicit names found in s
NamesFound(s) == {j \in 1..Len(ExplicitNames) : Occurs(ExplicitNames[j], s)}

C20_ExplicitNameFirst ==
    op = "classify" =>
        \E text_lower \in {lower(text)} :
            \E found \in {NamesFound(text_lower)} :
                found # {} =>
                    \E j \in found :
                        /\ \A i \in found : j <= i
                        /\ classified.by_keywords =
                               [cuisine |-> CuisineOfName(ExplicitNames[j]), confidence |-> <<1, 1>>]

C20_Witness ==
    /\ op = "classify"
    /\ text = "Thai Italian fried rice "
    /\ classified.by_keywords = [cuisine |-> "Italian", confidence |-> <<1, 1>>]
    /\ Scores(lower(text))["Chinese"] > Scores(lower(text))["Italian"]

\* the basic lexical method gave a result for the text
Lexical ==
    /\ op = "analyze"
    /\ raised = "none"
    /\ sentiment_result.method = "textblob"

\* the label of a polarity, in units of 0.00001, by the thresholds 0.3 and -0.3
ThreeWayLabel(polarity) ==
    IF polarity > 30000 THEN "positive"
    ELSE IF polarity < -30000 THEN "negative"
    ELSE "neutral"

\* C21 as stated: with the basic lexical method the label is 'positive' iff
\* the polarity is above 0.3, 'negative' iff it is below -0.3 and 'neutral'
\* otherwise, and the confidence is the absolute value of the polarity, in
\* [0, 1].
C21_ConfidenceIsAbsolutePolarity ==
    Lexical =>
        /\ sentiment_result.sentiment = ThreeWayLabel(blob[text])
        /\ sentiment_result.confidence * 10 = abs(blob[text])
        /\ 0 <= sentiment_result.confidence /\ sentiment_result.confidence <= 10000

\* C21: with the basic lexical method the label is 'positive' iff the polarity
\* is above 0.3, 'negative' iff it is below -0.3 and 'neutral' otherwise, a
\* 'slightly' label never being returned, and the confidence is the absolute
\* value of the polarity rounded to four decimals, in [0, 1].
C21_ConfidenceIsRoundedAbsolutePolarity ==
    Lexical =>
        /\ sentiment_result.sentiment = ThreeWayLabel(blob[text])
        /\ sentiment_result.confidence * 10 - abs(blob[text]) \in (-4)..4
        /\ 0 <= sentiment_result.confidence /\ sentiment_result.confidence <= 10000

C21_Witness ==
    /\ Lexical
    /\ method = "transformer"
    /\ blob[text] = -29999
    /\ nuanced_sentiment(blob[text]) = "slightly negative"
    /\ sentiment_result.sentiment = "neutral"
    /\ sentiment_result.confidence = 3000

\* no two items of the list are equal ignoring case
DistinctIgnoringCase(list) ==
    \A i, j \in 1..Len(list) : lower(list[i]) = lower(list[j]) => i = j

\* C22: whether the spaCy model is loaded or not, extract_entities returns the
\* four entity types dishes, restaurants, locations and people; each list has
\* at most 10 entries, every entry is longer than 2 characters and is not a
\* stopword when lowercased, and no two dishes are equal ignoring case.
C22_CleanedEntities ==
    op = "extract_entities" =>
        /\ DOMAIN entities = {"dishes", "restaurants", "locations", "people"}
        /\ \A k \in DOMAIN entities :
               /\ Len(entities[k]) <= 10
               /\ \A i \in 1..Len(entities[k]) :
                      /\ Len(entities[k][i]) > 2
                      /\ lower(entities[k][i]) \notin stopwords
        /\ DistinctIgnoringCase(entities["dishes"])

C22_Witness ==
    /\ op = "extract_entities"
    /\ spacy_available
    /\ text = MenuText
    /\ doc_ents = <<[text |-> "Momo", label_ |-> "PRODUCT"]>>
    /\ Len(dishes_added(text)) = 11
    /\ Len(entities["dishes"]) = 10
    /\ entities["dishes"][1] = "Momo"
    /\ entities["people"] = <<>>

\* C23: a sentence with a positive indicator gets a final polarity of at least
\* 0.3, and exactly +0.5 when it has a negative indicator too; an aspect whose
\* sentences all have a positive indicator is 'positive', and one whose
\* sentences all have a negative indicator and no positive one is 'negative',
\* for any base polarity in [-1, 1].
C23_PositiveIndicatorWins ==
    /\ Scored =>
           \E pos \in {[i \in 1..Len(sentences) |-> HasIndicator(positive_words, sentences[i])]},
              neg \in {[i \in 1..Len(sentences) |-> HasIndicator(negative_words, sentences[i])]} :
               /\ \A i \in 1..Len(sentences) :
                      pos[i] => /\ polarities[i] >= 30
                                /\ neg[i] => polarities[i] = 50
               /\ (sentences # <<>> /\ \A i \in 1..Len(sentences) : pos[i])
                      => label = "positive"
               /\ (sentences # <<>> /\ \A i \in 1..Len(sentences) : neg[i] /\ ~pos[i])
                      => label = "negative"
    /\ Analysed =>
           \E pos \in {[s \in DOMAIN blob |-> HasIndicator(positive_words, s)]},
              neg \in {[s \in DOMAIN blob |-> HasIndicator(negative_words, s)]} :
               \A a \in DOMAIN results :
                   results[a].mentioned =>
                       /\ (\A i \in 1..Len(results[a].sentences) : pos[results[a].sentences[i]])
                              => results[a].sentiment = "positive"
                       /\ (\A i \in 1..Len(results[a].sentences) :
                               neg[results[a].sentences[i]] /\ ~pos[results[a].sentences[i]])
                              => results[a].sentiment = "negative"

C23_Witness ==
    /\ Scored
    /\ sentences = <<"not worth it", "GREAT food">>
    /\ BothIndicators(sentences[1])
    /\ blob["not worth it"] = -100
    /\ blob["GREAT food"] = 100
    /\ polarities = <<50, 100>>
    /\ label = "positive"

\* C24: in every result of extract_aspects, two aspects with equal sentence
\* lists have the same sentiment label, so that a single-sentence review that
\* matches several aspects gives all of them the same label.
C24_LabelIndependentOfAspect ==
    Analysed =>
        \A a, b \in DOMAIN results :
            results[a].sentences = results[b].sentences =>
                results[a].sentiment = results[b].sentiment

C24_Witness ==
    /\ op = "extract_aspects"
    /\ text = "cold waiter"
    /\ results["food"].sentences = <<"cold waiter">>
    /\ results["service"].sentences = <<"cold waiter">>
    /\ blob["cold waiter"] = 30
    /\ results["food"].sentiment = "negative"
    /\ results["service"].sentiment = "negative"
    /\ results["price"].sentiment = "not mentioned"

\* some string of the list words occurs somewhere in s lowercased
IndicatorOccurs(words, s) ==
    \E s_lower \in {lower(s)} : \E j \in 1..Len(words) : Occurs(words[j], s_lower)

\* some string of the list words is a whole word of s lowercased
IndicatorIsWord(words, s) ==
    \E s_lower \in {lower(s)} : \E j \in 1..Len(words) : str_in_as_word(words[j], s_lower)

\* C25: a sentence has a negative (positive) indicator iff some negative
\* (positive) indicator string occurs anywhere in it, inside another word
\* included: with a negative one only its polarity is forced to -0.5 when its
\* base polarity is above -0.3, with a positive one only to +0.5 when below
\* 0.3, and with no occurrence at all it keeps its base polarity.
C25_IndicatorIsSubstring ==
    Scored =>
        \A i \in 1..Len(sentences) :
            \E neg \in {IndicatorOccurs(negative_words, sentences[i])},
               pos \in {IndicatorOccurs(positive_words, sentences[i])},
               base \in {blob[sentences[i]]} :
                /\ (neg /\ ~pos) => polarities[i] = (IF base > -30 THEN -50 ELSE base)
                /\ (pos /\ ~neg) => polarities[i] = (IF base < 30 THEN 50 ELSE base)
                /\ (~neg /\ ~pos) => polarities[i] = base

C25_Witness ==
    /\ Scored
    /\ sentences = <<"noodles">>
    /\ IndicatorOccurs(negative_words, "noodles")
    /\ ~IndicatorIsWord(negative_words, "noodles")
    /\ ~IndicatorOccurs(positive_words, "noodles")
    /\ blob["noodles"] = 0
    /\ polarities = <<-50>>
    /\ label = "negative"

\* C26: classify returns 'Unknown' if and only if get_all_scores returns an
\* empty mapping on the same text, every explicit cuisine name being a keyword
\* of its cuisine, and a cuisine other than 'Unknown' returned by classify is
\* a key of get_all_scores with a count of at least 1.
C26_ViewsAgree ==
    op = "get_all_scores" =>
        /\ (classified.cuisine = "Unknown") <=> (all_scores = <<>>)
        /\ classified.cuisine # "Unknown" =>
               \E i \in 1..Len(all_scores) :
                   /\ all_scores[i][1] = classified.cuisine
                   /\ all_scores[i][2] >= 1
        /\ \A j \in 1..Len(explicit_mentions) :
               \E k \in 1..Len(cuisine_keywords[explicit_mentions[j][2]]) :
                   cuisine_keywords[explicit_mentions[j][2]][k] = explicit_mentions[j][1]

C26_Witness ==
    /\ op = "get_all_scores"
    /\ text = "Thai fried rice noodle "
    /\ classified.cuisine = "Thai"
    /\ all_scores[1] = <<"Chinese", 2>>
    /\ all_scores[Len(all_scores)] = <<"Thai", 1>>

====
